---------------------------- MODULE Spec2Model ----------------------------
(***************************************************************************)
(* Model of the job-lifecycle controller of src/src/app/App.tsx (the React *)
(* component App): backend wake-up, submission form, admission check,      *)
(* queue waiter, upload, status polling, automatic and manual download,    *)
(* abort, acknowledgment, and the session history with its expiry timers.  *)
(*                                                                         *)
(* JavaScript runs one callback at a time, so every action below is one    *)
(* callback run from its start to its next await (or its end).  A request  *)
(* in flight or a pending timer is a position (pc) of the asynchronous     *)
(* invocation that waits for it; the server's answer is chosen when the    *)
(* continuation runs.  An asynchronous invocation keeps the values of the  *)
(* render in which it was started (React closures): cap[t] holds them.     *)
(* Time is not measured: a pending timer may fire at any moment.           *)
(***************************************************************************)
EXTENDS Integers, Sequences, FiniteSets, TLC

\* ------------------------------------------------------------------ bounds
\* Number of PDF files submitted (handleFileSelect) in one session.
MaxSubmissions == 2
\* Number of admission answers in one session that deny capacity below the
\* ceiling, so that the Queue Waiter starts or goes on waiting.
MaxWaits == 3
\* Number of 503 answers the server gives to uploads in one session.
Max503 == 1
\* Number of times the user presses Abort in one session.
MaxAborts == 1
\* Number of times the user presses a Download button in one session.
MaxManual == 1
\* Number of countdown ticks between two admission re-checks.
MaxTicks == 1
\* Longest chunk-size text typed into the form (specification SpecForm).
MaxChunkLen == 3

\* A session is one of: a single submission that meets every disturbance
\* (denials, 503, abort, manual download); MaxSubmissions submissions, which
\* may overlap, that meet no denial, 503 or abort; MaxSubmissions
\* submissions that meet two denials and no other disturbance.
Profiles ==
    {[submissions |-> 1, waits |-> MaxWaits, s503 |-> Max503,
      aborts |-> MaxAborts, manual |-> MaxManual],
     [submissions |-> MaxSubmissions, waits |-> 0, s503 |-> 0,
      aborts |-> 0, manual |-> MaxManual],
     [submissions |-> MaxSubmissions, waits |-> 2, s503 |-> 0,
      aborts |-> 0, manual |-> 0]}

\* ------------------------------------------------------- program constants
QueueCeiling == 10
FirstRetrySeconds == 5
LaterRetrySeconds == 10
DefaultRetryMinutes == 5

Threads == 1..MaxSubmissions
NoId == 0

\* ----------------------------------------------------------- fixed strings
ValidationMessage == "Chunk Size need to be filled (e.g. 5 pages)"
InvalidTypeMessage == "Invalid file type. Only PDF files are allowed."
HomeCheckFailedMessage == "Failed to check queue status. Please try again."
WakingMessage == "Backend is waking up. This may take up to 50 seconds. Please wait..."
AbortMessage == "Process aborted by user."
WaitCheckFailedMessage == "Failed to check queue status. Please try again."
UploadFailedMessage == "Upload failed"
PollFailedMessage == "Failed to check processing status"
ProcessingErrorMessage == "An error occurred during processing"
AutoExpiredMessage == "Download expired. Please re-upload your PDF file."
ManualExpiredMessage == "Download expired (1 minute limit). Please re-upload your PDF file."
AutoFailedMessage == "Automatic download failed. Please use the download button."

\* ------------------------------------------------- chunk-size text, Number()
Chars == {"-", "0", "5", ".", "a", " "}
Digits == {"0", "5"}

RECURSIVE StringsOfLen(_)
StringsOfLen(n) ==
    IF n = 0 THEN {<<>>}
    ELSE {Append(s, c) : s \in StringsOfLen(n - 1), c \in Chars}

ChunkStrings == UNION {StringsOfLen(n) : n \in 0..MaxChunkLen}

DigitVal(c) == IF c = "5" THEN 5 ELSE 0

RECURSIVE TrimLeft(_)
TrimLeft(s) == IF s # <<>> /\ Head(s) = " " THEN TrimLeft(Tail(s)) ELSE s

RECURSIVE TrimRight(_)
TrimRight(s) ==
    IF s # <<>> /\ s[Len(s)] = " " THEN TrimRight(SubSeq(s, 1, Len(s) - 1)) ELSE s

Trim(s) == TrimRight(TrimLeft(s))

RECURSIVE DigitsValue(_)
DigitsValue(s) ==
    IF s = <<>> THEN 0
    ELSE 10 * DigitsValue(SubSeq(s, 1, Len(s) - 1)) + DigitVal(s[Len(s)])

\* Number(text): the text trimmed; "" is 0; an optional sign, digits with at
\* most one dot and at least one digit; anything else is NaN.  The value is
\* sign * num / 10^scale.
ToNumber(text) ==
    LET t == Trim(text)
        neg == t # <<>> /\ Head(t) = "-"
        u == IF neg THEN Tail(t) ELSE t
        dots == {i \in 1..Len(u) : u[i] = "."}
        digs == SelectSeq(u, LAMBDA c : c \in Digits)
        wellFormed == /\ \A i \in 1..Len(u) : u[i] \in Digits \cup {"."}
                      /\ Cardinality(dots) <= 1
                      /\ Len(digs) >= 1
        scale == IF dots = {} THEN 0 ELSE Len(u) - (CHOOSE i \in dots : TRUE)
    IN  IF t = <<>> THEN [nan |-> FALSE, neg |-> FALSE, num |-> 0, scale |-> 0]
        ELSE IF ~wellFormed THEN [nan |-> TRUE, neg |-> FALSE, num |-> 0, scale |-> 0]
        ELSE [nan |-> FALSE, neg |-> neg, num |-> DigitsValue(digs), scale |-> scale]

\* Number(x) <= 0 (false for NaN, true for -0)
NumberLeqZero(n) == ~n.nan /\ (n.neg \/ n.num = 0)

\* a validation that lets zero pass: Number(chunkSize) < 0
ChunkInvalid_StrictlyNegative(text) ==
    \/ text = <<>>
    \/ ToNumber(text).nan
    \/ (ToNumber(text).neg /\ ToNumber(text).num # 0)

\* !chunkSize || isNaN(Number(chunkSize)) || Number(chunkSize) <= 0
ChunkInvalid(text) ==
    \/ text = <<>>
    \/ ToNumber(text).nan
    \/ NumberLeqZero(ToNumber(text))


\* -------------------------------------------------------- server's answers
\* check-size: FAILED is a transport error, a non-OK answer or unparsable JSON
CheckMessages == {"File too large for available memory"}
QueueCounts == {2, QueueCeiling}
RetryAfterValues == {0, 90}     \* 0: retry_after_seconds is null
ActiveJobsValues == {1}

CheckAnswers ==
    [allowed : BOOLEAN, queue_available : BOOLEAN, queue_count : QueueCounts,
     retry_after_seconds : RetryAfterValues, active_jobs : ActiveJobsValues,
     message : CheckMessages]

FileTypes == {"application/pdf", "text/plain"}

\* The chunk-size texts typed in specification Spec
ChunkInputs == {<<"5">>}

\* ---------------------------------------------------------------- helpers
CeilDiv(a, b) == (a + b - 1) \div b

\* Math.round(x / y * 100) for 0 <= x, 0 < y
RoundPercent(x, y) == (200 * x + y) \div (2 * y)

BusyMessage(count, retryAfter) ==
    LET retryMinutes == IF retryAfter # 0 THEN CeilDiv(retryAfter, 60)
                        ELSE DefaultRetryMinutes
    IN  "Server is very busy (" \o ToString(count) \o " jobs in queue). "
        \o "Please try again in " \o ToString(retryMinutes) \o " minute"
        \o (IF retryMinutes # 1 THEN "s" ELSE "") \o "."

\* ReadyQueueInfo, were no snapshot shown during the pause
ReadyQueueInfo_None == <<>>

\* { position: 0, jobsAhead: 0, estimatedWaitSeconds: 0 }
ReadyQueueInfo == <<[position |-> 0, jobsAhead |-> 0, estimatedWaitSeconds |-> 0]>>

\* ------------------------------------------------------------------ state
VARIABLES
    \* React state (useState)
    currentStage, chunkSize, selectedFile, processingStatus, progress,
    errorMessage, homeErrorMessage, history, currentJobId,
    showDownloadButton, showExpiryWarning, queueInfo, queueWaitInfo,
    backendAwake, wakingBackend,
    \* refs (useRef): a timer handle is the id of the invocation that set it
    pollingRef, queueCheckIntervalRef, queueCheckTimeoutRef, retryAttemptRef,
    \* asynchronous invocations
    wakePc,          \* wakeUpBackend
    pc,              \* handleFileSelect .. handleAutoDownload, per submission
    cap,             \* the render values each submission's closures hold
    dl,              \* handleAutoDownload's reader loop, per submission
    left,            \* what the user and the server will still do this session
    mpc,             \* handleManualDownload, per job id
    mdl,             \* handleManualDownload's reader loop, per job id
    abortsInFlight,  \* handleAbort invocations awaiting their cleanup fetch
    \* browser
    pickerOpen,      \* the file dialog opened by fileInputRef.current.click()
    intervalLive,    \* countdown intervals not cleared, by owner
    expiryLive,      \* expiry timers not yet fired or cleared, by item id
    \* observation (history variables, read by no action)
    acked,           \* history: OK was pressed and the user started nothing since
    aborted,         \* "uploading" or "queue_full_waiting": the user aborted in
                     \* that phase and has not acknowledged since; "" otherwise
    uploadLog        \* per submission: the upload requests sent, the 503
                     \* answers received, the chunk_size of the last request

formVars == <<chunkSize, homeErrorMessage, pickerOpen>>
wakeVars == <<backendAwake, wakingBackend, wakePc>>
jobVars == <<currentStage, selectedFile, processingStatus, progress, errorMessage,
             currentJobId, showDownloadButton, showExpiryWarning, queueInfo,
             queueWaitInfo>>
histVars == <<history, expiryLive>>
refVars == <<pollingRef, queueCheckIntervalRef, queueCheckTimeoutRef,
             retryAttemptRef, intervalLive>>
threadVars == <<pc, cap, dl, left>>
manualVars == <<mpc, mdl>>

obsVars == <<aborted, acked, uploadLog>>

vars == <<formVars, wakeVars, jobVars, histVars, refVars, threadVars,
          manualVars, abortsInFlight, obsVars>>

NoCapture == [history |-> <<>>, chunkSize |-> <<>>,
              showDownloadButton |-> FALSE, currentJobId |-> NoId]
NoDownload == [total |-> 0, length |-> 0, received |-> 0]
NoUploads == [uploads |-> 0, busy |-> 0, chunk |-> <<>>]

\* the state after the first render, but for the form text, the wake-up and
\* the session
Fresh ==
    /\ currentStage = "home"
    /\ selectedFile = NoId
    /\ processingStatus = "idle"
    /\ progress = 0
    /\ errorMessage = ""
    /\ homeErrorMessage = ""
    /\ history = <<>>
    /\ currentJobId = NoId
    /\ showDownloadButton = FALSE
    /\ showExpiryWarning = FALSE
    /\ queueInfo = <<>>
    /\ queueWaitInfo = <<>>
    /\ wakingBackend = FALSE
    /\ pollingRef = NoId
    /\ queueCheckIntervalRef = NoId
    /\ queueCheckTimeoutRef = NoId
    /\ retryAttemptRef = 0
    /\ pc = [t \in Threads |-> "none"]
    /\ cap = [t \in Threads |-> NoCapture]
    /\ dl = [t \in Threads |-> NoDownload]
    /\ mpc = [j \in Threads |-> "none"]
    /\ mdl = [j \in Threads |-> NoDownload]
    /\ abortsInFlight = 0
    /\ pickerOpen = FALSE
    /\ intervalLive = {}
    /\ expiryLive = {}
    /\ acked = FALSE
    /\ aborted = ""
    /\ uploadLog = [t \in Threads |-> NoUploads]

Init ==
    /\ Fresh
    /\ chunkSize = <<>>
    /\ backendAwake = FALSE
    /\ wakePc = "mount"
    /\ left \in Profiles

\* ------------------------------------------------------- timers and refs
\* clearTimeout(pollingRef.current): the invocation whose poll timer it was
\* never continues
ClearPollTimer(p, handle) ==
    IF handle # NoId /\ p[handle] = "poll_timer"
    THEN [p EXCEPT ![handle] = "cancelled"] ELSE p

\* clearTimeout(queueCheckTimeoutRef.current): the waiter whose re-check timer
\* it was never continues (its promise is never resolved)
ClearRecheckTimer(p, handle) ==
    IF handle # NoId /\ p[handle] = "wait_timer"
    THEN [p EXCEPT ![handle] = "cancelled"] ELSE p

\* clearInterval(queueCheckIntervalRef.current)
ClearInterval(live, handle) == live \ {handle}

\* The locals of an invocation (dl) exist while it runs: they are dropped
\* when it has ended or can never continue.  d: the new values for the
\* invocations that still run; l: what is left of the session after the step.
Ended(p, t) == p[t] \in {"none", "done", "cancelled"}
LiveOnly(f, p, default) == [t \in Threads |-> IF Ended(p, t) THEN default ELSE f[t]]
Locals(d, l) ==
    /\ dl' = LiveOnly(d, pc', NoDownload)
    /\ left' = l

\* ------------------------------------------------------------ wakeUpBackend
\* useEffect(() => { wakeUpBackend(); }, []) and the retry timer: the
\* invocation sets wakingBackend and requests /health
WakeUpBackend ==
    /\ wakePc \in {"mount", "retry_timer"}
    /\ wakingBackend' = TRUE
    /\ wakePc' = "health"
    /\ UNCHANGED <<backendAwake, formVars, jobVars, histVars, refVars,
                   threadVars, manualVars, abortsInFlight, aborted, uploadLog, acked>>

HealthResponse(ok) ==
    /\ wakePc = "health"
    /\ IF ok
       THEN /\ backendAwake' = TRUE
            /\ homeErrorMessage' = ""
            /\ wakingBackend' = FALSE
            /\ wakePc' = "done"
       ELSE /\ wakePc' = "ping"
            /\ UNCHANGED <<backendAwake, homeErrorMessage, wakingBackend>>
    /\ UNCHANGED <<chunkSize, pickerOpen, jobVars, histVars, refVars,
                   threadVars, manualVars, abortsInFlight, aborted, uploadLog, acked>>

\* PingResponse, were no retry scheduled after both requests failed
PingResponse_NoRetry(ok) ==
    /\ wakePc = "ping"
    /\ IF ok
       THEN /\ backendAwake' = TRUE
            /\ homeErrorMessage' = ""
            /\ wakePc' = "done"
       ELSE /\ homeErrorMessage' = WakingMessage
            /\ wakePc' = "done"
            /\ UNCHANGED backendAwake
    /\ wakingBackend' = FALSE
    /\ UNCHANGED <<chunkSize, pickerOpen, jobVars, histVars, refVars,
                   threadVars, manualVars, abortsInFlight, aborted, uploadLog, acked>>

PingResponse(ok) ==
    /\ wakePc = "ping"
    /\ IF ok
       THEN /\ backendAwake' = TRUE
            /\ homeErrorMessage' = ""
            /\ wakePc' = "done"
       ELSE /\ homeErrorMessage' = WakingMessage
            /\ wakePc' = "retry_timer"
            /\ UNCHANGED backendAwake
    /\ wakingBackend' = FALSE
    /\ UNCHANGED <<chunkSize, pickerOpen, jobVars, histVars, refVars,
                   threadVars, manualVars, abortsInFlight, aborted, uploadLog, acked>>

\* ------------------------------------------------------- submission form
SubmitEnabled == currentStage = "home" /\ backendAwake /\ ~wakingBackend

SetChunkSize(text) ==
    /\ currentStage = "home"
    /\ ~pickerOpen
    /\ chunkSize' = text
    /\ UNCHANGED <<homeErrorMessage, pickerOpen, wakeVars, jobVars, histVars,
                   refVars, threadVars, manualVars, abortsInFlight, aborted, uploadLog, acked>>

HandleUploadClick ==
    /\ SubmitEnabled
    /\ ~pickerOpen
    /\ IF ChunkInvalid(chunkSize)
       THEN /\ homeErrorMessage' = ValidationMessage
            /\ UNCHANGED pickerOpen
       ELSE /\ homeErrorMessage' = ""
            /\ pickerOpen' = TRUE
    /\ UNCHANGED <<chunkSize, wakeVars, jobVars, histVars, refVars,
                   threadVars, manualVars, abortsInFlight, aborted, uploadLog, acked>>

\* the dialog is closed without a file: handleFileSelect returns at once
PickerCancel ==
    /\ pickerOpen
    /\ pickerOpen' = FALSE
    /\ UNCHANGED <<chunkSize, homeErrorMessage, wakeVars, jobVars, histVars,
                   refVars, threadVars, manualVars, abortsInFlight, aborted, uploadLog, acked>>


\* --------------------------------------------------------- handleFileSelect
UnusedThreads == {t \in Threads : pc[t] = "none"}
NextThread == CHOOSE t \in UnusedThreads : \A u \in UnusedThreads : t <= u

\* A file is chosen in the dialog.  A PDF starts submission t: the admission
\* check is requested while the home view stays (lines 256-267)
HandleFileSelect(fileType) ==
    /\ pickerOpen
    /\ currentStage = "home"
    /\ pickerOpen' = FALSE
    /\ IF fileType # "application/pdf"
       THEN /\ homeErrorMessage' = InvalidTypeMessage
            /\ UNCHANGED <<pc, cap, dl, left, acked>>
       ELSE /\ UnusedThreads # {}
            /\ left.submissions > 0
            /\ acked' = FALSE
            /\ pc' = [pc EXCEPT ![NextThread] = "check0"]
            /\ cap' = [cap EXCEPT ![NextThread] =
                          [history |-> history, chunkSize |-> chunkSize,
                           showDownloadButton |-> showDownloadButton,
                           currentJobId |-> currentJobId]]
            /\ Locals(dl, [left EXCEPT !.submissions = @ - 1])
            /\ UNCHANGED homeErrorMessage
    /\ UNCHANGED <<chunkSize, wakeVars, jobVars, histVars, refVars,
                   manualVars, abortsInFlight, aborted, uploadLog>>

\* checkQueueAvailability throws (transport error, non-OK answer): line 337
CheckFailed0(t) ==
    /\ pc[t] = "check0"
    /\ homeErrorMessage' = HomeCheckFailedMessage
    /\ pc' = [pc EXCEPT ![t] = "done"]
    /\ Locals(dl, left)
    /\ UNCHANGED <<chunkSize, pickerOpen, wakeVars, jobVars, histVars, refVars,
                   cap, manualVars, abortsInFlight, aborted, uploadLog, acked>>

\* the answer to the first admission check (lines 269-334)
CheckAnswered0(t, a) ==
    /\ pc[t] = "check0"
    /\ IF ~a.allowed
       THEN \* shown on the home view, the processing view is not entered
            /\ homeErrorMessage' = a.message
            /\ pc' = [pc EXCEPT ![t] = "done"]
            /\ Locals(dl, left)
            /\ UNCHANGED <<pickerOpen, jobVars, retryAttemptRef>>
       ELSE /\ selectedFile' = t
            /\ homeErrorMessage' = ""
            /\ currentStage' = "processing"
            /\ pickerOpen' = FALSE      \* the form and its input are unmounted
            /\ progress' = 0
            /\ showDownloadButton' = FALSE
            /\ showExpiryWarning' = FALSE
            /\ queueWaitInfo' = <<>>
            /\ retryAttemptRef' = 0
            /\ UNCHANGED currentJobId
            /\ IF a.queue_available
               THEN /\ processingStatus' = "queued"
                    /\ queueInfo' = ReadyQueueInfo
                    /\ UNCHANGED errorMessage
                    /\ pc' = [pc EXCEPT ![t] = "delay"]
                    /\ Locals(dl, left)
               ELSE IF a.queue_count >= QueueCeiling
               THEN /\ processingStatus' = "error"
                    /\ errorMessage' = BusyMessage(a.queue_count, a.retry_after_seconds)
                    /\ queueInfo' = <<>>
                    /\ pc' = [pc EXCEPT ![t] = "done"]
                    /\ Locals(dl, left)
               ELSE \* waitForQueueSpace: checkAndWait() requests a check at once
                    /\ processingStatus' = "queue_full_waiting"
                    /\ queueInfo' = <<>>
                    /\ UNCHANGED errorMessage
                    /\ left.waits > 0
                    /\ pc' = [pc EXCEPT ![t] = "wait_check"]
                    /\ Locals(dl, [left EXCEPT !.waits = @ - 1])
    /\ UNCHANGED <<chunkSize, wakeVars, histVars, pollingRef,
                   queueCheckIntervalRef, queueCheckTimeoutRef, intervalLive,
                   cap, manualVars, abortsInFlight, aborted, uploadLog, acked>>


\* -------------------------------------------------------- waitForQueueSpace
\* checkQueueAvailability throws inside checkAndWait (lines 232-237)
WaitCheckFailed(t) ==
    /\ pc[t] = "wait_check"
    /\ processingStatus' = "error"
    /\ errorMessage' = WaitCheckFailedMessage
    /\ pc' = [pc EXCEPT ![t] = "done"]
    /\ Locals(dl, left)
    /\ UNCHANGED <<formVars, wakeVars, currentStage, selectedFile, progress,
                   currentJobId, showDownloadButton, showExpiryWarning,
                   queueInfo, queueWaitInfo, histVars, refVars, cap,
                   manualVars, abortsInFlight, aborted, uploadLog, acked>>

RetrySeconds(attempt) == IF attempt = 1 THEN FirstRetrySeconds ELSE LaterRetrySeconds

\* the answer to a check of checkAndWait (lines 177-230), and for resolve(true)
\* the caller's continuation up to its 3-second pause (lines 321-331, 411-421)
WaitCheckAnswered(t, a) ==
    /\ pc[t] = "wait_check"
    /\ IF ~a.allowed /\ a.queue_available
       THEN /\ processingStatus' = "error"
            /\ errorMessage' = a.message
            /\ pc' = [pc EXCEPT ![t] = "done"]
            /\ Locals(dl, left)
            /\ UNCHANGED <<queueInfo, queueWaitInfo, refVars>>
       ELSE IF a.queue_available
       THEN /\ queueWaitInfo' = <<>>
            /\ retryAttemptRef' = 0
            /\ processingStatus' = "queued"
            /\ queueInfo' = ReadyQueueInfo
            /\ pc' = [pc EXCEPT ![t] = "delay"]
            /\ Locals(dl, left)
            /\ UNCHANGED <<errorMessage, pollingRef, queueCheckIntervalRef,
                           queueCheckTimeoutRef, intervalLive>>
       ELSE /\ left.waits > 0
            /\ retryAttemptRef' = retryAttemptRef + 1
            /\ queueWaitInfo' =
                   <<[activeJobs |-> a.active_jobs, queueCount |-> a.queue_count,
                      retryAfterSeconds |-> RetrySeconds(retryAttemptRef'),
                      countdownSeconds |-> RetrySeconds(retryAttemptRef')]>>
            /\ intervalLive' = ClearInterval(intervalLive, queueCheckIntervalRef) \cup {t}
            /\ queueCheckIntervalRef' = t
            /\ pc' = [ClearRecheckTimer(pc, queueCheckTimeoutRef) EXCEPT ![t] = "wait_timer"]
            /\ queueCheckTimeoutRef' = t
            /\ Locals(dl, [left EXCEPT !.waits = @ - 1])
            /\ UNCHANGED <<processingStatus, errorMessage, queueInfo, pollingRef>>
    /\ UNCHANGED <<formVars, wakeVars, currentStage, selectedFile, progress,
                   currentJobId, showDownloadButton, showExpiryWarning,
                   histVars, cap, manualVars, abortsInFlight, aborted, uploadLog, acked>>

\* the re-check timer fires: checkAndWait() requests the next check (line 228)
RecheckTimerFires(t) ==
    /\ pc[t] = "wait_timer"
    /\ pc' = [pc EXCEPT ![t] = "wait_check"]
    /\ Locals(dl, left)
    /\ UNCHANGED <<formVars, wakeVars, jobVars, histVars, refVars, cap,
                   manualVars, abortsInFlight, aborted, uploadLog, acked>>

\* the one-second countdown interval ticks (lines 211-221)
TickCountdown(t) ==
    /\ t \in intervalLive
    /\ queueWaitInfo # <<>> =>
           queueWaitInfo[1].retryAfterSeconds - queueWaitInfo[1].countdownSeconds
               < MaxTicks
    /\ queueWaitInfo' =
           IF queueWaitInfo = <<>> \/ queueWaitInfo[1].countdownSeconds <= 1
           THEN queueWaitInfo
           ELSE <<[queueWaitInfo[1] EXCEPT !.countdownSeconds = @ - 1]>>
    /\ UNCHANGED <<formVars, wakeVars, currentStage, selectedFile,
                   processingStatus, progress, errorMessage, currentJobId,
                   showDownloadButton, showExpiryWarning, queueInfo, histVars,
                   refVars, threadVars, manualVars, abortsInFlight, aborted, uploadLog, acked>>

\* ---------------------------------------------------------- startProcessing
UploadProgressEvents == {[loaded |-> 1, total |-> 2]}
UploadErrorDetails == {"", "Invalid file type"}   \* "": the answer has no detail
TransportErrors == {"Upload failed"}

\* OrDefault, were the server's text never passed on
OrDefault_AlwaysDefault(text, default) == default

OrDefault(text, default) == IF text = "" THEN default ELSE text

\* the pause before the upload ends: startProcessing runs up to xhr.send
\* (lines 297-299, 331-333, 421-423, 343-398)
StartProcessing(t) ==
    /\ pc[t] = "delay"
    /\ intervalLive' = ClearInterval(intervalLive, queueCheckIntervalRef)
    /\ queueCheckIntervalRef' = NoId
    /\ pc' = [ClearRecheckTimer(pc, queueCheckTimeoutRef) EXCEPT ![t] = "upload"]
    /\ queueCheckTimeoutRef' = NoId
    /\ processingStatus' = "uploading"
    /\ progress' = 0
    /\ showDownloadButton' = FALSE
    /\ showExpiryWarning' = FALSE
    /\ queueInfo' = <<>>
    /\ queueWaitInfo' = <<>>
    /\ uploadLog' = [uploadLog EXCEPT ![t].uploads = @ + 1,
                                   ![t].chunk = cap[t].chunkSize]
    /\ Locals(dl, left)
    /\ UNCHANGED <<formVars, wakeVars, currentStage, selectedFile, errorMessage,
                   currentJobId, histVars, pollingRef, retryAttemptRef, cap,
                   manualVars, abortsInFlight, aborted, acked>>

\* xhr.upload.onprogress (lines 372-377)
UploadProgress(t, e) ==
    /\ pc[t] = "upload"
    /\ progress' = RoundPercent(e.loaded, e.total)
    /\ UNCHANGED <<formVars, wakeVars, currentStage, selectedFile,
                   processingStatus, errorMessage, currentJobId,
                   showDownloadButton, showExpiryWarning, queueInfo,
                   queueWaitInfo, histVars, refVars, threadVars, manualVars,
                   abortsInFlight, aborted, uploadLog, acked>>

\* Upload503, were the 503 answer handled like any other refusal
Upload503_AsError(t) ==
    /\ left.s503 > 0
    /\ uploadLog' = [uploadLog EXCEPT ![t].busy = @ + 1]
    /\ pc[t] = "upload"
    /\ processingStatus' = "error"
    /\ errorMessage' = UploadFailedMessage
    /\ pc' = [pc EXCEPT ![t] = "done"]
    /\ Locals(dl, [left EXCEPT !.s503 = @ - 1])
    /\ UNCHANGED <<formVars, wakeVars, currentStage, selectedFile, progress,
                   currentJobId, showDownloadButton, showExpiryWarning,
                   queueInfo, queueWaitInfo, histVars, refVars, cap,
                   manualVars, abortsInFlight, aborted, acked>>

\* the upload is answered 503: back to the Queue Waiter (lines 401-409)
Upload503(t) ==
    /\ pc[t] = "upload"
    /\ left.s503 > 0
    /\ processingStatus' = "queue_full_waiting"
    /\ pc' = [pc EXCEPT ![t] = "wait_check"]
    /\ uploadLog' = [uploadLog EXCEPT ![t].busy = @ + 1]
    /\ Locals(dl, [left EXCEPT !.s503 = @ - 1])
    /\ UNCHANGED <<formVars, wakeVars, currentStage, selectedFile, progress,
                   errorMessage, currentJobId, showDownloadButton,
                   showExpiryWarning, queueInfo, queueWaitInfo, histVars,
                   refVars, cap, manualVars, abortsInFlight, aborted, acked>>

\* xhr.onerror / ontimeout, or a non-success answer other than 503
\* (lines 393-394, 430-433, 441-445)
UploadFailed(t, message) ==
    /\ pc[t] = "upload"
    /\ processingStatus' = "error"
    /\ errorMessage' = message
    /\ pc' = [pc EXCEPT ![t] = "done"]
    /\ Locals(dl, left)
    /\ UNCHANGED <<formVars, wakeVars, currentStage, selectedFile, progress,
                   currentJobId, showDownloadButton, showExpiryWarning,
                   queueInfo, queueWaitInfo, histVars, refVars, cap,
                   manualVars, abortsInFlight, aborted, uploadLog, acked>>

\* the upload succeeds: the job id is stored and the first status request is
\* sent (lines 435-439, 450)
UploadAccepted(t) ==
    /\ pc[t] = "upload"
    /\ currentJobId' = t
    /\ pc' = [pc EXCEPT ![t] = "poll"]
    /\ Locals(dl, left)
    /\ UNCHANGED <<formVars, wakeVars, currentStage, selectedFile,
                   processingStatus, progress, errorMessage,
                   showDownloadButton, showExpiryWarning, queueInfo,
                   queueWaitInfo, histVars, refVars, cap, manualVars,
                   abortsInFlight, aborted, uploadLog, acked>>


\* --------------------------------------------------------------- pollStatus
NullSeconds == 0 - 1      \* estimatedWaitSeconds: null

InProgressTags == {"uploading", "splitting", "adding_watermarks", "merging"}
StatusProgressValues == {0, 60}      \* 0: the answer has no progress
StatusErrors == {"", "Corrupted PDF file"}   \* "": the answer has no error text

\* the answers of GET /api/status/{job}: absent numbers are 0
StatusAnswers ==
    {[status |-> tag, progress |-> p, queue_position |-> 0, jobs_ahead |-> 0,
      estimated_wait_seconds |-> 0, error |-> ""] :
        tag \in InProgressTags, p \in StatusProgressValues}
    \cup {[status |-> "queued", progress |-> 0, queue_position |-> q,
           jobs_ahead |-> IF q = 0 THEN 0 ELSE q - 1,
           estimated_wait_seconds |-> 30 * q, error |-> ""] : q \in {0, 2}}
    \cup {[status |-> "finished", progress |-> 100, queue_position |-> 0,
           jobs_ahead |-> 0, estimated_wait_seconds |-> 0, error |-> ""]}
    \cup {[status |-> "error", progress |-> 0, queue_position |-> 0,
           jobs_ahead |-> 0, estimated_wait_seconds |-> 0, error |-> e] :
              e \in StatusErrors}

\* a mapping that shows a local phase the server did not report
PhaseOfStatus_Uploaded(tag) ==
    IF tag = "finished" THEN "downloading"
    ELSE IF tag = "splitting" THEN "uploading" ELSE tag

\* the phase pollStatus shows for a status tag (lines 481, 491)
PhaseOfStatus(tag) == IF tag = "finished" THEN "downloading" ELSE tag

\* fetch throws or the answer is not OK (lines 454-456, 497-504)
PollFailed(t) ==
    /\ pc[t] = "poll"
    /\ processingStatus' = "error"
    /\ errorMessage' = PollFailedMessage
    /\ pc' = [ClearPollTimer(pc, pollingRef) EXCEPT ![t] = "done"]
    /\ Locals(dl, left)
    /\ UNCHANGED <<formVars, wakeVars, currentStage, selectedFile, progress,
                   currentJobId, showDownloadButton, showExpiryWarning,
                   queueInfo, queueWaitInfo, histVars, refVars, cap,
                   manualVars, abortsInFlight, aborted, uploadLog, acked>>

\* PollAnswered, were the next status request sent by the handler itself,
\* with no timer between two requests
PollAnswered_Immediate(t, a) ==
    /\ pc[t] = "poll"
    /\ IF a.status = "error"
       THEN /\ processingStatus' = "error"
            /\ errorMessage' = OrDefault(a.error, ProcessingErrorMessage)
            /\ pc' = [ClearPollTimer(pc, pollingRef) EXCEPT ![t] = "done"]
            /\ Locals(dl, left)
            /\ UNCHANGED <<progress, queueInfo, pollingRef>>
       ELSE /\ queueInfo' =
                   IF a.status = "queued"
                   THEN <<[position |-> a.queue_position,
                           jobsAhead |-> a.jobs_ahead,
                           estimatedWaitSeconds |->
                               IF a.estimated_wait_seconds = 0 THEN NullSeconds
                               ELSE a.estimated_wait_seconds]>>
                   ELSE <<>>
            /\ processingStatus' = PhaseOfStatus(a.status)
            /\ progress' = a.progress
            /\ UNCHANGED errorMessage
            /\ IF a.status = "finished"
               THEN /\ pc' = [ClearPollTimer(pc, pollingRef) EXCEPT ![t] = "dl"]
                    /\ Locals(dl, left)
                    /\ UNCHANGED pollingRef
               ELSE /\ pc' = [pc EXCEPT ![t] = "poll"]
                    /\ UNCHANGED pollingRef
                    /\ Locals(dl, left)
    /\ UNCHANGED <<formVars, wakeVars, currentStage, selectedFile, currentJobId,
                   showDownloadButton, showExpiryWarning, queueWaitInfo,
                   histVars, queueCheckIntervalRef, queueCheckTimeoutRef,
                   retryAttemptRef, intervalLive, cap, manualVars,
                   abortsInFlight, aborted, uploadLog, acked>>

\* a status answer (lines 458-496); for finished, handleAutoDownload runs up
\* to its download request (line 509)
PollAnswered(t, a) ==
    /\ pc[t] = "poll"
    /\ IF a.status = "error"
       THEN /\ processingStatus' = "error"
            /\ errorMessage' = OrDefault(a.error, ProcessingErrorMessage)
            /\ pc' = [ClearPollTimer(pc, pollingRef) EXCEPT ![t] = "done"]
            /\ Locals(dl, left)
            /\ UNCHANGED <<progress, queueInfo, pollingRef>>
       ELSE /\ queueInfo' =
                   IF a.status = "queued"
                   THEN <<[position |-> a.queue_position,
                           jobsAhead |-> a.jobs_ahead,
                           estimatedWaitSeconds |->
                               IF a.estimated_wait_seconds = 0 THEN NullSeconds
                               ELSE a.estimated_wait_seconds]>>
                   ELSE <<>>
            /\ processingStatus' = PhaseOfStatus(a.status)
            /\ progress' = a.progress
            /\ UNCHANGED errorMessage
            /\ IF a.status = "finished"
               THEN /\ pc' = [ClearPollTimer(pc, pollingRef) EXCEPT ![t] = "dl"]
                    /\ Locals(dl, left)
                    /\ UNCHANGED pollingRef
               ELSE /\ pc' = [pc EXCEPT ![t] = "poll_timer"]
                    /\ pollingRef' = t
                    /\ Locals(dl, left)
    /\ UNCHANGED <<formVars, wakeVars, currentStage, selectedFile, currentJobId,
                   showDownloadButton, showExpiryWarning, queueWaitInfo,
                   histVars, queueCheckIntervalRef, queueCheckTimeoutRef,
                   retryAttemptRef, intervalLive, cap, manualVars,
                   abortsInFlight, aborted, uploadLog, acked>>

\* the one-second poll timer fires: the next status request (line 495)
PollTimerFires(t) ==
    /\ pc[t] = "poll_timer"
    /\ pc' = [pc EXCEPT ![t] = "poll"]
    /\ Locals(dl, left)
    /\ UNCHANGED <<formVars, wakeVars, jobVars, histVars, refVars, cap,
                   manualVars, abortsInFlight, aborted, uploadLog, acked>>

\* ------------------------------------------------------- the History Ledger
TimersOf(h) == {h[i].expiryTimer : i \in 1..Len(h)} \ {NoId}

\* ClearedItem, were the jobId kept on the cleared entry
ClearedItem_KeepsJobId(item) ==
    [item EXCEPT !.downloadFailed = FALSE, !.expiryTimer = NoId]

\* { ...item, downloadFailed: false, jobId: undefined, expiryTimer: undefined }
ClearedItem(item) ==
    [item EXCEPT !.downloadFailed = FALSE, !.jobId = NoId, !.expiryTimer = NoId]

\* NewItem, were the timer handle never stored on the entry
NewItem_NoTimer(t, failed) ==
    [id |-> t, downloadFailed |-> failed,
     jobId |-> IF failed THEN t ELSE NoId,
     expiryTimer |-> NoId]

\* the entry of job t (lines 574-581, 592-600, 616)
NewItem(t, failed) ==
    [id |-> t, downloadFailed |-> failed,
     jobId |-> IF failed THEN t ELSE NoId,
     expiryTimer |-> IF failed THEN t ELSE NoId]


\* useEffect(..., [history]) (lines 76-93): when the ledger changes, the
\* cleanup of the previous render runs: it clears the expiry timers of the
\* entries the ledger held before the change, the countdown interval and the
\* re-check timer (the refs keep their handles)
ExpiryAfterChange(live) == live \ TimersOf(history)
IntervalsAfterChange == ClearInterval(intervalLive, queueCheckIntervalRef)
PcAfterChange(p) == ClearRecheckTimer(p, queueCheckTimeoutRef)

\* -------------------------------------------------------- handleAutoDownload
DownloadAnswers == {[total |-> 0, length |-> 1], [total |-> 1, length |-> 1]}

\* AutoFailure, were the catch branch to report the failure as an error
AutoFailure_AsError(t) ==
    /\ processingStatus' = "error"
    /\ showDownloadButton' = TRUE
    /\ showExpiryWarning' = TRUE
    /\ history' = <<NewItem(t, TRUE)>> \o cap[t].history
    /\ expiryLive' = ExpiryAfterChange(expiryLive) \cup {t}
    /\ intervalLive' = IntervalsAfterChange
    /\ pc' = [PcAfterChange(pc) EXCEPT ![t] = "done"]
    /\ errorMessage' = AutoFailedMessage
    /\ Locals(dl, left)
    /\ UNCHANGED <<formVars, wakeVars, currentStage, selectedFile, progress,
                   currentJobId, queueInfo, queueWaitInfo, pollingRef,
                   queueCheckIntervalRef, queueCheckTimeoutRef,
                   retryAttemptRef, cap, manualVars, abortsInFlight, aborted, uploadLog, acked>>

\* the catch branch (lines 585-620): the entry is added to the ledger of the
\* render in which the submission started
AutoFailure(t) ==
    /\ processingStatus' = "finished"
    /\ showDownloadButton' = TRUE
    /\ showExpiryWarning' = TRUE
    /\ history' = <<NewItem(t, TRUE)>> \o cap[t].history
    /\ expiryLive' = ExpiryAfterChange(expiryLive) \cup {t}
    /\ intervalLive' = IntervalsAfterChange
    /\ pc' = [PcAfterChange(pc) EXCEPT ![t] = "done"]
    /\ errorMessage' = AutoFailedMessage
    /\ Locals(dl, left)
    /\ UNCHANGED <<formVars, wakeVars, currentStage, selectedFile, progress,
                   currentJobId, queueInfo, queueWaitInfo, pollingRef,
                   queueCheckIntervalRef, queueCheckTimeoutRef,
                   retryAttemptRef, cap, manualVars, abortsInFlight, aborted, uploadLog, acked>>

\* DlExpired, were the 410 answer handled like any other failed download
DlExpired_AsFailure(t) ==
    /\ pc[t] = "dl"
    /\ AutoFailure(t)

\* 410 Gone (lines 513-518)
DlExpired(t) ==
    /\ pc[t] = "dl"
    /\ processingStatus' = "error"
    /\ errorMessage' = AutoExpiredMessage
    /\ pc' = [pc EXCEPT ![t] = "done"]
    /\ Locals(dl, left)
    /\ UNCHANGED <<formVars, wakeVars, currentStage, selectedFile, progress,
                   currentJobId, showDownloadButton, showExpiryWarning,
                   queueInfo, queueWaitInfo, histVars, refVars, cap,
                   manualVars, abortsInFlight, aborted, uploadLog, acked>>

\* fetch throws, the answer is not OK or has no body (lines 520-530)
DlFailed(t) ==
    /\ pc[t] = "dl"
    /\ AutoFailure(t)

\* the answer is OK: the reader loop starts (lines 524-535)
DlStarted(t, a) ==
    /\ pc[t] = "dl"
    /\ pc' = [pc EXCEPT ![t] = "dl_read"]
    /\ Locals([dl EXCEPT ![t] = [total |-> a.total, length |-> a.length,
                                       received |-> 0]], left)
    /\ UNCHANGED <<formVars, wakeVars, jobVars, histVars, refVars, cap,
                   manualVars, abortsInFlight, aborted, uploadLog, acked>>

\* reader.read() gives one byte (lines 538-549)
DlChunk(t) ==
    /\ pc[t] = "dl_read"
    /\ dl[t].received < dl[t].length
    /\ dl' = [dl EXCEPT ![t].received = @ + 1]
    /\ progress' = IF dl[t].total > 0
                   THEN RoundPercent(dl[t].received + 1, dl[t].total)
                   ELSE progress
    /\ UNCHANGED <<formVars, wakeVars, currentStage, selectedFile,
                   processingStatus, errorMessage, currentJobId,
                   showDownloadButton, showExpiryWarning, queueInfo,
                   queueWaitInfo, histVars, refVars, pc, cap, left, manualVars,
                   abortsInFlight, aborted, uploadLog, acked>>

\* reader.read() throws (the connection breaks)
DlReadFailed(t) ==
    /\ pc[t] = "dl_read"
    /\ AutoFailure(t)

\* DlSaved, were the ledger updated after the save with no cleanup request
DlSaved_NoCleanup(t) ==
    /\ pc[t] = "dl_read"
    /\ dl[t].received = dl[t].length
    /\ processingStatus' = "finished"
    /\ history' = <<NewItem(t, FALSE)>> \o cap[t].history
    /\ expiryLive' = ExpiryAfterChange(expiryLive)
    /\ intervalLive' = IntervalsAfterChange
    /\ pc' = [PcAfterChange(pc) EXCEPT ![t] = "done"]
    /\ Locals(dl, left)
    /\ UNCHANGED <<formVars, wakeVars, currentStage, selectedFile, progress,
                   errorMessage, currentJobId, showDownloadButton,
                   showExpiryWarning, queueInfo, queueWaitInfo, pollingRef,
                   queueCheckIntervalRef, queueCheckTimeoutRef,
                   retryAttemptRef, cap, manualVars, abortsInFlight, aborted, uploadLog, acked>>

\* the stream ends: the file is saved and the cleanup is requested
\* (lines 540, 552-569)
DlSaved(t) ==
    /\ pc[t] = "dl_read"
    /\ dl[t].received = dl[t].length
    /\ pc' = [pc EXCEPT ![t] = "dl_cleanup"]
    /\ Locals(dl, left)
    /\ UNCHANGED <<formVars, wakeVars, jobVars, histVars, refVars, cap,
                   manualVars, abortsInFlight, aborted, uploadLog, acked>>

\* the cleanup request is answered, with any status (lines 571-583)
DlCleanupAnswered(t) ==
    /\ pc[t] = "dl_cleanup"
    /\ processingStatus' = "finished"
    /\ history' = <<NewItem(t, FALSE)>> \o cap[t].history
    /\ expiryLive' = ExpiryAfterChange(expiryLive)
    /\ intervalLive' = IntervalsAfterChange
    /\ pc' = [PcAfterChange(pc) EXCEPT ![t] = "done"]
    /\ Locals(dl, left)
    /\ UNCHANGED <<formVars, wakeVars, currentStage, selectedFile, progress,
                   errorMessage, currentJobId, showDownloadButton,
                   showExpiryWarning, queueInfo, queueWaitInfo, pollingRef,
                   queueCheckIntervalRef, queueCheckTimeoutRef,
                   retryAttemptRef, cap, manualVars, abortsInFlight, aborted, uploadLog, acked>>

\* the cleanup fetch throws (transport error): the catch branch runs
DlCleanupFailed(t) ==
    /\ pc[t] = "dl_cleanup"
    /\ AutoFailure(t)

\* the 60-second expiry timer of entry i fires (lines 604-614)
ExpiryFires(i) ==
    /\ i \in expiryLive
    /\ history' = [k \in 1..Len(history) |->
                        IF history[k].id = i THEN ClearedItem(history[k])
                                             ELSE history[k]]
    /\ expiryLive' = ExpiryAfterChange(expiryLive \ {i})
    /\ intervalLive' = IntervalsAfterChange
    /\ pc' = PcAfterChange(pc)
    /\ IF cap[i].showDownloadButton /\ cap[i].currentJobId = i
       THEN showDownloadButton' = FALSE /\ showExpiryWarning' = FALSE
       ELSE UNCHANGED <<showDownloadButton, showExpiryWarning>>
    /\ Locals(dl, left)
    /\ UNCHANGED <<formVars, wakeVars, currentStage, selectedFile,
                   processingStatus, progress, errorMessage, currentJobId,
                   queueInfo, queueWaitInfo, pollingRef, queueCheckIntervalRef,
                   queueCheckTimeoutRef, retryAttemptRef, cap,
                   manualVars, abortsInFlight, aborted, uploadLog, acked>>


\* ------------------------------------------------------ handleManualDownload
\* the job whose Download button is shown: in the processing view (line 1039)
\* or on the first history row (line 886); NoId: no button
ActiveViewJob ==
    IF currentStage = "processing" /\ showDownloadButton
       /\ currentJobId # NoId /\ selectedFile # NoId
    THEN currentJobId ELSE NoId

HistoryRowJob ==
    IF currentStage = "home" /\ Len(history) > 0
       /\ history[1].downloadFailed /\ history[1].jobId # NoId
    THEN history[1].jobId ELSE NoId

\* the button is pressed: the phase is set and the download is requested
\* (lines 623-631)
HandleManualDownload(j) ==
    /\ j # NoId
    /\ j \in {ActiveViewJob, HistoryRowJob}
    /\ mpc[j] = "none"
    /\ left.manual > 0
    /\ left' = [left EXCEPT !.manual = @ - 1]
    /\ acked' = FALSE
    /\ processingStatus' = "downloading"
    /\ progress' = 0
    /\ mpc' = [mpc EXCEPT ![j] = "dl"]
    /\ UNCHANGED <<formVars, wakeVars, currentStage, selectedFile, errorMessage,
                   currentJobId, showDownloadButton, showExpiryWarning,
                   queueInfo, queueWaitInfo, histVars, refVars, pc, cap, dl,
                   mdl, abortsInFlight, aborted, uploadLog>>

\* 410 Gone (lines 633-640)
ManualExpired(j) ==
    /\ mpc[j] = "dl"
    /\ showDownloadButton' = FALSE
    /\ showExpiryWarning' = FALSE
    /\ processingStatus' = "error"
    /\ errorMessage' = ManualExpiredMessage
    /\ mpc' = [mpc EXCEPT ![j] = "none"]
    /\ UNCHANGED <<formVars, wakeVars, currentStage, selectedFile, progress,
                   currentJobId, queueInfo, queueWaitInfo, histVars, refVars,
                   threadVars, mdl, abortsInFlight, aborted, uploadLog, acked>>

\* the catch branch: only an alert (lines 705-708)
ManualFailed(j) ==
    /\ mpc[j] \in {"dl", "dl_read", "dl_cleanup"}
    /\ mpc' = [mpc EXCEPT ![j] = "none"]
    /\ mdl' = [mdl EXCEPT ![j] = NoDownload]
    /\ UNCHANGED <<formVars, wakeVars, jobVars, histVars, refVars, threadVars,
                   abortsInFlight, aborted, uploadLog, acked>>

ManualStarted(j, a) ==
    /\ mpc[j] = "dl"
    /\ mpc' = [mpc EXCEPT ![j] = "dl_read"]
    /\ mdl' = [mdl EXCEPT ![j] = [total |-> a.total, length |-> a.length, received |-> 0]]
    /\ UNCHANGED <<formVars, wakeVars, jobVars, histVars, refVars, threadVars,
                   abortsInFlight, aborted, uploadLog, acked>>

ManualChunk(j) ==
    /\ mpc[j] = "dl_read"
    /\ mdl[j].received < mdl[j].length
    /\ mdl' = [mdl EXCEPT ![j].received = @ + 1]
    /\ progress' = IF mdl[j].total > 0
                   THEN RoundPercent(mdl[j].received + 1, mdl[j].total)
                   ELSE progress
    /\ UNCHANGED <<formVars, wakeVars, currentStage, selectedFile,
                   processingStatus, errorMessage, currentJobId,
                   showDownloadButton, showExpiryWarning, queueInfo,
                   queueWaitInfo, histVars, refVars, threadVars, mpc,
                   abortsInFlight, aborted, uploadLog, acked>>

\* the stream ends: the file is saved and the cleanup is requested
\* (lines 674-690)
ManualSaved(j) ==
    /\ mpc[j] = "dl_read"
    /\ mdl[j].received = mdl[j].length
    /\ mpc' = [mpc EXCEPT ![j] = "dl_cleanup"]
    /\ mdl' = [mdl EXCEPT ![j] = NoDownload]
    /\ UNCHANGED <<formVars, wakeVars, jobVars, histVars, refVars, threadVars,
                   abortsInFlight, aborted, uploadLog, acked>>

\* the cleanup request is answered, with any status (lines 692-703)
ManualCleanupAnswered(j) ==
    /\ mpc[j] = "dl_cleanup"
    /\ history' = [k \in 1..Len(history) |->
                        IF history[k].jobId = j THEN ClearedItem(history[k])
                                                ELSE history[k]]
    /\ expiryLive' = ExpiryAfterChange(
                        expiryLive \ {history[i].expiryTimer :
                                        i \in {k \in 1..Len(history) : history[k].jobId = j}})
    /\ intervalLive' = IntervalsAfterChange
    /\ pc' = PcAfterChange(pc)
    /\ showDownloadButton' = FALSE
    /\ showExpiryWarning' = FALSE
    /\ mpc' = [mpc EXCEPT ![j] = "none"]
    /\ Locals(dl, left)
    /\ UNCHANGED <<formVars, wakeVars, currentStage, selectedFile,
                   processingStatus, progress, errorMessage, currentJobId,
                   queueInfo, queueWaitInfo, pollingRef, queueCheckIntervalRef,
                   queueCheckTimeoutRef, retryAttemptRef, cap, mdl,
                   abortsInFlight, aborted, uploadLog, acked>>

\* --------------------------------------------------- handleAbort, handleOk
\* AbortEnabled, were the Abort button never disabled
AbortEnabled_Always == currentStage = "processing"

AbortEnabled ==
    currentStage = "processing" /\ processingStatus \notin {"finished", "error"}

OkEnabled ==
    currentStage = "processing" /\ processingStatus \in {"finished", "error"}

\* lines 711-742: the timers of the refs are cleared; with a job id the
\* cleanup is requested and awaited, without one the rest runs at once
HandleAbort ==
    /\ AbortEnabled
    /\ left.aborts > 0
    /\ pc' = ClearRecheckTimer(ClearPollTimer(pc, pollingRef), queueCheckTimeoutRef)
    /\ pollingRef' = NoId
    /\ intervalLive' = ClearInterval(intervalLive, queueCheckIntervalRef)
    /\ queueCheckIntervalRef' = NoId
    /\ queueCheckTimeoutRef' = NoId
    /\ aborted' = IF aborted = "" /\ processingStatus \in {"uploading", "queue_full_waiting"}
                  THEN processingStatus ELSE aborted
    /\ UNCHANGED uploadLog
    /\ IF currentJobId # NoId
       THEN /\ abortsInFlight' = abortsInFlight + 1
            /\ UNCHANGED <<processingStatus, errorMessage, queueWaitInfo>>
       ELSE /\ processingStatus' = "error"
            /\ errorMessage' = AbortMessage
            /\ queueWaitInfo' = <<>>
            /\ UNCHANGED abortsInFlight
    /\ Locals(dl, [left EXCEPT !.aborts = @ - 1])
    /\ UNCHANGED <<formVars, wakeVars, currentStage, selectedFile, progress,
                   currentJobId, showDownloadButton, showExpiryWarning,
                   queueInfo, histVars, retryAttemptRef, cap, manualVars,
                   acked>>

\* the awaited cleanup request ends, answered or not (lines 730-741)
AbortCleanupDone ==
    /\ abortsInFlight > 0
    /\ abortsInFlight' = abortsInFlight - 1
    /\ processingStatus' = "error"
    /\ errorMessage' = AbortMessage
    /\ queueWaitInfo' = <<>>
    /\ UNCHANGED <<formVars, wakeVars, currentStage, selectedFile, progress,
                   currentJobId, showDownloadButton, showExpiryWarning,
                   queueInfo, histVars, refVars, threadVars, manualVars,
                   aborted, uploadLog, acked>>

\* HandleOk, were it to empty the ledger as well
HandleOk_ClearsHistory ==
    /\ OkEnabled
    /\ pc' = ClearRecheckTimer(ClearPollTimer(pc, pollingRef), queueCheckTimeoutRef)
    /\ pollingRef' = NoId
    /\ intervalLive' = ClearInterval(intervalLive, queueCheckIntervalRef)
    /\ queueCheckIntervalRef' = NoId
    /\ queueCheckTimeoutRef' = NoId
    /\ currentStage' = "home"
    /\ processingStatus' = "idle"
    /\ progress' = 0
    /\ selectedFile' = NoId
    /\ errorMessage' = ""
    /\ chunkSize' = <<>>
    /\ currentJobId' = NoId
    /\ showDownloadButton' = FALSE
    /\ showExpiryWarning' = FALSE
    /\ queueInfo' = <<>>
    /\ queueWaitInfo' = <<>>
    /\ aborted' = ""
    /\ UNCHANGED uploadLog
    /\ acked' = TRUE
    /\ Locals(dl, left)
    /\ history' = <<>>
    /\ UNCHANGED <<homeErrorMessage, pickerOpen, wakeVars, expiryLive,
                   retryAttemptRef, cap, manualVars, abortsInFlight>>

\* lines 744-775
HandleOk ==
    /\ OkEnabled
    /\ pc' = ClearRecheckTimer(ClearPollTimer(pc, pollingRef), queueCheckTimeoutRef)
    /\ pollingRef' = NoId
    /\ intervalLive' = ClearInterval(intervalLive, queueCheckIntervalRef)
    /\ queueCheckIntervalRef' = NoId
    /\ queueCheckTimeoutRef' = NoId
    /\ currentStage' = "home"
    /\ processingStatus' = "idle"
    /\ progress' = 0
    /\ selectedFile' = NoId
    /\ errorMessage' = ""
    /\ chunkSize' = <<>>
    /\ currentJobId' = NoId
    /\ showDownloadButton' = FALSE
    /\ showExpiryWarning' = FALSE
    /\ queueInfo' = <<>>
    /\ queueWaitInfo' = <<>>
    /\ aborted' = ""
    /\ UNCHANGED uploadLog
    /\ acked' = TRUE
    /\ Locals(dl, left)
    /\ UNCHANGED <<homeErrorMessage, pickerOpen, wakeVars, histVars,
                   retryAttemptRef, cap, manualVars, abortsInFlight>>

\* ------------------------------------------------------------ specification
Next ==
    \/ WakeUpBackend
    \/ \E ok \in BOOLEAN : HealthResponse(ok)
    \/ \E ok \in BOOLEAN : PingResponse(ok)
    \/ \E text \in ChunkInputs : SetChunkSize(text)
    \/ HandleUploadClick
    \/ PickerCancel
    \/ \E ft \in FileTypes : HandleFileSelect(ft)
    \/ \E t \in Threads : CheckFailed0(t)
    \/ \E t \in Threads, a \in CheckAnswers : CheckAnswered0(t, a)
    \/ \E t \in Threads : WaitCheckFailed(t)
    \/ \E t \in Threads, a \in CheckAnswers : WaitCheckAnswered(t, a)
    \/ \E t \in Threads : RecheckTimerFires(t)
    \/ \E t \in Threads : TickCountdown(t)
    \/ \E t \in Threads : StartProcessing(t)
    \/ \E t \in Threads, e \in UploadProgressEvents : UploadProgress(t, e)
    \/ \E t \in Threads : Upload503(t)
    \/ \E t \in Threads, d \in UploadErrorDetails :
           UploadFailed(t, OrDefault(d, UploadFailedMessage))
    \/ \E t \in Threads, m \in TransportErrors : UploadFailed(t, m)
    \/ \E t \in Threads : UploadAccepted(t)
    \/ \E t \in Threads : PollFailed(t)
    \/ \E t \in Threads, a \in StatusAnswers : PollAnswered(t, a)
    \/ \E t \in Threads : PollTimerFires(t)
    \/ \E t \in Threads : DlExpired(t)
    \/ \E t \in Threads : DlFailed(t)
    \/ \E t \in Threads, a \in DownloadAnswers : DlStarted(t, a)
    \/ \E t \in Threads : DlChunk(t)
    \/ \E t \in Threads : DlReadFailed(t)
    \/ \E t \in Threads : DlSaved(t)
    \/ \E t \in Threads : DlCleanupAnswered(t)
    \/ \E t \in Threads : DlCleanupFailed(t)
    \/ \E i \in Threads : ExpiryFires(i)
    \/ \E j \in Threads : HandleManualDownload(j)
    \/ \E j \in Threads : ManualExpired(j)
    \/ \E j \in Threads : ManualFailed(j)
    \/ \E j \in Threads, a \in DownloadAnswers : ManualStarted(j, a)
    \/ \E j \in Threads : ManualChunk(j)
    \/ \E j \in Threads : ManualSaved(j)
    \/ \E j \in Threads : ManualCleanupAnswered(j)
    \/ HandleAbort
    \/ AbortCleanupDone
    \/ HandleOk

Spec == Init /\ [][Next]_vars

\* ------------------------------------------------------- the wake-up
\* Scheduling of the wake-up: the mount effect and the 5-second retry timer
\* run wakeUpBackend; every health and ping request ends, answered or timed
\* out after 30 seconds; and the backend, asked again and again, answers
\* one of the requests OK.
SpecWake ==
    /\ Spec
    /\ WF_vars(WakeUpBackend)
    /\ WF_vars(\E ok \in BOOLEAN : HealthResponse(ok))
    /\ WF_vars(\E ok \in BOOLEAN : PingResponse(ok))
    /\ SF_vars(HealthResponse(TRUE) \/ PingResponse(TRUE))

\* ------------------------------------------------- the form's validation
\* The backend is awake and the user has typed any text of at most
\* MaxChunkLen characters; one file may be submitted.
InitForm ==
    /\ Fresh
    /\ chunkSize \in ChunkStrings
    /\ backendAwake = TRUE
    /\ wakePc = "done"
    /\ left = [submissions |-> 1, waits |-> 0, s503 |-> 0, aborts |-> 0,
               manual |-> 0]

NextForm ==
    \/ HandleUploadClick
    \/ PickerCancel
    \/ \E ft \in FileTypes : HandleFileSelect(ft)
    \/ \E t \in Threads : CheckFailed0(t)
    \/ \E t \in Threads, a \in CheckAnswers : CheckAnswered0(t, a)

SpecForm == InitForm /\ [][NextForm]_vars

\* ================================================================= claims

\* ---------------------------------------------------------------------- C1
\* C1: after the user aborts while the phase is uploading or
\* queue_full_waiting, the phase never becomes finished before the
\* acknowledgment, whatever responses of that job arrive afterwards.
C1_NoFinishAfterAbort ==
    aborted \in {"uploading", "queue_full_waiting"} => processingStatus # "finished"

\* ---------------------------------------------------------------------- C2
\* C2: once the phase is finished or error, no operation or callback changes
\* it; the only transition out of either is the acknowledgment, to idle.
C2_TerminalPhases ==
    [][(processingStatus = "finished" \/ processingStatus = "error")
           => processingStatus' \in {processingStatus, "idle"}]_vars

\* ---------------------------------------------------------------------- C3
\* C3: after the acknowledgment, until the user starts something again, the
\* phase stays idle and progress, job identifier, error message, queue
\* snapshot and queue-wait info stay cleared.
C3_IdleAfterOk ==
    acked => /\ processingStatus = "idle"
             /\ progress = 0
             /\ currentJobId = NoId
             /\ errorMessage = ""
             /\ queueInfo = <<>>
             /\ queueWaitInfo = <<>>

\* ---------------------------------------------------------------------- C4
\* C4: at most one submission is in flight at any time: there are never two
\* invocations with a request in flight or a timer pending.
C4_OneJobInFlight ==
    Cardinality({t \in Threads : ~Ended(pc, t)}) <= 1

\* ---------------------------------------------------------------------- C5
\* C5: at most one history entry has downloadFailed = true, and it is the
\* most recently added one (index 0 of the ledger).
C5_OnlyNewestOutstanding ==
    \A i \in 1..Len(history) : history[i].downloadFailed => i = 1

\* ---------------------------------------------------------------------- C6
C6_DigitTexts == {s \in ChunkStrings : \A i \in 1..Len(s) : s[i] \in Digits}

\* decimal numerals: an optional minus sign, digits with at most one dot and
\* at least one digit
C6_Numerals ==
    LET unsigned ==
            (C6_DigitTexts \ {<<>>})
            \cup {p[1] \o <<".">> \o p[2] :
                     p \in {q \in C6_DigitTexts \X C6_DigitTexts :
                               q[1] \o q[2] # <<>>}}
    IN  unsigned \cup {<<"-">> \o u : u \in unsigned}

\* the text is empty or blank, is not a numeral between spaces, or is a
\* numeral that is zero or negative
C6_BadInput(text) ==
    LET I == 1..Len(text)
        blank == \A k \in I : text[k] = " "
        numeric == \E i, j \in I :
                       /\ i <= j
                       /\ SubSeq(text, i, j) \in C6_Numerals
                       /\ \A k \in I : (k < i \/ k > j) => text[k] = " "
        zero == \A k \in I : text[k] # "5"
        negative == \E k \in I : text[k] = "-"
    IN  blank \/ ~numeric \/ zero \/ negative

\* C6: with a chunk-size text that is empty, non-numeric, zero or negative,
\* every step of the form shows the validation message, leaves the file
\* picker closed, starts no request and leaves the phase idle.
C6_InvalidChunkRejected ==
    [][C6_BadInput(chunkSize)
           => /\ homeErrorMessage' = ValidationMessage
              /\ ~pickerOpen'
              /\ pc' = pc
              /\ processingStatus' = "idle"
              /\ currentStage' = "home"]_vars

\* a negative number was typed and the click was rejected
C6_Witness ==
    /\ chunkSize = <<"-", "5">>
    /\ homeErrorMessage = ValidationMessage
    /\ ~pickerOpen
    /\ \A t \in Threads : pc[t] = "none"

\* ---------------------------------------------------------------------- C7
\* C7: every admission answer with allowed = false, to the first check or
\* to a re-check, takes the phase to error.
C7_NotAllowedIsError ==
    [][\A t \in Threads, a \in CheckAnswers :
           (~a.allowed /\ (CheckAnswered0(t, a) \/ WaitCheckAnswered(t, a)))
               => processingStatus' = "error"]_vars

\* ---------------------------------------------------------------------- C8
\* C8: when the first admission answer denies capacity (file allowed, queue
\* below the ceiling), the first re-check is requested only after the short
\* interval: the answer leaves a re-check timer of FirstRetrySeconds pending.
C8_FirstRecheckAfterShortDelay ==
    [][\A t \in Threads, a \in CheckAnswers :
           (/\ CheckAnswered0(t, a)
            /\ a.allowed
            /\ ~a.queue_available
            /\ a.queue_count < QueueCeiling)
               => /\ pc'[t] = "wait_timer"
                  /\ queueWaitInfo' # <<>>
                  /\ queueWaitInfo'[1].retryAfterSeconds = FirstRetrySeconds]_vars

\* ---------------------------------------------------------------------- C9
\* C9: every admission answer that denies capacity (file allowed) and
\* reports queue_count at the ceiling or above, to the first check or to a
\* re-check, takes the phase to error with the busy message and ends the
\* re-checks of the submission.
C9_BusyIsError ==
    [][\A t \in Threads, a \in CheckAnswers :
           (/\ CheckAnswered0(t, a) \/ WaitCheckAnswered(t, a)
            /\ a.allowed
            /\ ~a.queue_available
            /\ a.queue_count >= QueueCeiling)
               => /\ processingStatus' = "error"
                  /\ errorMessage' = BusyMessage(a.queue_count, a.retry_after_seconds)
                  /\ pc'[t] = "done"]_vars

\* --------------------------------------------------------------------- C10
\* C10: after each status answer the phase is the answer's status tag, but
\* downloading in place of finished; and once finished or error was
\* answered, no status request or poll timer of that job follows.
C10_PhaseFollowsStatus ==
    [][/\ \A t \in Threads, a \in StatusAnswers :
              PollAnswered(t, a)
                  => /\ processingStatus' =
                            (IF a.status = "finished" THEN "downloading"
                             ELSE a.status)
                     /\ a.status \in {"finished", "error"}
                            => pc'[t] \notin {"poll", "poll_timer"}
       /\ \A t \in Threads :
              pc[t] \in {"dl", "dl_read", "dl_cleanup", "done", "cancelled"}
                  => pc'[t] \notin {"poll", "poll_timer"}]_vars

\* finished was answered: the phase is downloading and the download request
\* of the job is in flight
C10_Witness ==
    \E t \in Threads :
        /\ pc[t] = "dl"
        /\ currentJobId = t
        /\ processingStatus = "downloading"
        /\ progress = 100

\* --------------------------------------------------------------------- C11
\* C11: when the automatic download of a job has received all its bytes and
\* saved the file, the invocation ends with exactly one history entry of
\* that job, not outstanding (no jobId, no expiry timer), and the phase
\* finished.
C11_AutoSuccessOneClearedEntry ==
    [][\A t \in Threads :
          (pc[t] = "dl_cleanup" /\ pc'[t] # "dl_cleanup")
              => /\ processingStatus' = "finished"
                 /\ Cardinality({k \in 1..Len(history') : history'[k].id = t}) = 1
                 /\ \A k \in 1..Len(history') :
                        history'[k].id = t
                            => /\ ~history'[k].downloadFailed
                               /\ history'[k].jobId = NoId
                               /\ history'[k].expiryTimer = NoId]_vars

\* --------------------------------------------------------------------- C12
\* C12: when the automatic download fails for a reason other than the 410
\* answer, the phase becomes finished, the Download button and the expiry
\* warning are switched on, and the ledger holds exactly one entry of the
\* job: outstanding, with the job id and a pending expiry timer.
C12_AutoFailureOutstandingEntry ==
    [][\A t \in Threads :
          (pc[t] \in {"dl", "dl_read"} /\ pc'[t] = "done" /\ ~DlExpired(t))
              => /\ processingStatus' = "finished"
                 /\ showDownloadButton'
                 /\ showExpiryWarning'
                 /\ Cardinality({k \in 1..Len(history') : history'[k].id = t}) = 1
                 /\ \A k \in 1..Len(history') :
                        history'[k].id = t
                            => /\ history'[k].downloadFailed
                               /\ history'[k].jobId = t
                               /\ history'[k].expiryTimer # NoId
                               /\ history'[k].expiryTimer \in expiryLive']_vars

\* the download request of job t failed: the phase is finished, the button
\* is offered in the processing view, the entry's timer is pending
C12_Witness ==
    \E t \in Threads :
        /\ pc[t] = "done"
        /\ processingStatus = "finished"
        /\ ActiveViewJob = t
        /\ showExpiryWarning
        /\ errorMessage = AutoFailedMessage
        /\ Len(history) = 1
        /\ history[1].downloadFailed
        /\ history[1].jobId = t
        /\ history[1].expiryTimer \in expiryLive

\* --------------------------------------------------------------------- C13
\* C13: when a manual retrieval has saved the file, its invocation ends with
\* the job's history entry not outstanding (no jobId, no expiry handle), the
\* entry's expiry timer no longer pending, and the Download button and the
\* expiry warning of the processing view hidden.
C13_ManualSuccessClearsEntry ==
    [][\A j \in Threads :
          (mpc[j] = "dl_cleanup" /\ mpc'[j] # "dl_cleanup")
              => /\ \A k \in 1..Len(history') :
                        history'[k].id = j
                            => /\ ~history'[k].downloadFailed
                               /\ history'[k].jobId = NoId
                               /\ history'[k].expiryTimer = NoId
                 /\ j \notin expiryLive'
                 /\ ~showDownloadButton'
                 /\ ~showExpiryWarning']_vars

\* --------------------------------------------------------------------- C14
\* C14: when the expiry timer of an outstanding job fires, the job's history
\* entry stays in the ledger with the outstanding flag and the jobId
\* cleared, and the Download button of that job is offered nowhere any
\* more: neither on the history row nor in the processing view.
C14_ExpiryRemovesAffordance ==
    [][\A i \in Threads :
          ExpiryFires(i)
              => /\ Len(history') = Len(history)
                 /\ \A k \in 1..Len(history') :
                        history'[k].id = i
                            => /\ ~history'[k].downloadFailed
                               /\ history'[k].jobId = NoId
                 /\ (currentJobId = i
                        => ~showDownloadButton' /\ ~showExpiryWarning')]_vars

\* --------------------------------------------------------------------- C15
\* C15: the acknowledgment (the step from the processing view back to the
\* home page) is taken from finished or error, sets the phase to idle,
\* clears the job id, the progress, the error message, the queue snapshot
\* and the queue-wait info, and leaves the ledger and its expiry timers
\* as they were.
C15_OkResetsJobKeepsLedger ==
    [][(currentStage = "processing" /\ currentStage' = "home")
          => /\ processingStatus \in {"finished", "error"}
             /\ processingStatus' = "idle"
             /\ currentJobId' = NoId
             /\ progress' = 0
             /\ errorMessage' = ""
             /\ queueInfo' = <<>>
             /\ queueWaitInfo' = <<>>
             /\ history' = history
             /\ expiryLive' = expiryLive]_vars

\* the user acknowledged a job whose automatic download had failed: the
\* controller is idle and the entry is still outstanding with its timer
C15_Witness ==
    /\ acked
    /\ currentStage = "home"
    /\ processingStatus = "idle"
    /\ currentJobId = NoId
    /\ Len(history) = 1
    /\ history[1].downloadFailed
    /\ history[1].expiryTimer \in expiryLive

\* --------------------------------------------------------------------- C16
\* C16: the status polls of a job are sequential.  A status request is
\* issued only by the accepted upload or by the job's poll timer firing,
\* never by a step that handles a status response and never while the
\* job's download runs; a poll timer becomes pending only in the step that
\* handles the response to the job's request in flight.  (An invocation is at
\* one place at a time, so a job has a request in flight or a timer pending
\* or neither.)
C16_PollsAreSequential ==
    [][\A t \in Threads :
          /\ (pc'[t] = "poll" /\ pc[t] # "poll")
                 => pc[t] \in {"upload", "poll_timer"}
          /\ (PollFailed(t) \/ \E a \in StatusAnswers : PollAnswered(t, a))
                 => pc'[t] \in {"poll_timer", "dl", "done"}
          /\ (pc'[t] = "poll_timer" /\ pc[t] # "poll_timer")
                 => pc[t] = "poll" /\ pollingRef' = t]_vars

\* the poll timer of job t has fired after an in-progress answer: the
\* second status request of the job is in flight
C16_Witness ==
    \E t \in Threads :
        /\ pc[t] = "poll"
        /\ pollingRef = t
        /\ currentJobId = t
        /\ processingStatus \in InProgressTags

\* --------------------------------------------------------------------- C17
\* C17: after the user aborted in the phase queue_full_waiting and until the
\* acknowledgment, no admission re-check is requested, no re-check timer is
\* set and no upload is started (no step takes a submission to the place
\* where it waits for a check answer, for the re-check timer, for the pause
\* before the upload or for the upload response), and no countdown interval
\* is started.
C17_NoRecheckAfterAbort ==
    [][aborted = "queue_full_waiting"
          => /\ \A t \in Threads :
                    pc'[t] # pc[t]
                        => pc'[t] \notin {"wait_check", "wait_timer", "delay", "upload"}
             /\ intervalLive' \subseteq intervalLive]_vars

\* --------------------------------------------------------------------- C18
\* C18: a cleanup request that fails leaves the same state as one that is
\* answered.  On the automatic path the step adds the job's entry not
\* outstanding, sets the phase to finished and touches neither the Download
\* button, the expiry warning nor the error message; on the manual path the
\* step clears the entry of the job and leaves none of its timers pending.
C18_CleanupOutcomeIgnored ==
    [][/\ \A t \in Threads :
              DlCleanupFailed(t)
                  => /\ history' = <<NewItem(t, FALSE)>> \o cap[t].history
                     /\ processingStatus' = "finished"
                     /\ t \notin expiryLive'
                     /\ UNCHANGED <<showDownloadButton, showExpiryWarning,
                                    errorMessage>>
       /\ \A j \in Threads :
              (mpc[j] = "dl_cleanup" /\ ManualFailed(j))
                  => /\ history' = [k \in 1..Len(history) |->
                                       IF history[k].jobId = j
                                       THEN [history[k] EXCEPT
                                                !.downloadFailed = FALSE,
                                                !.jobId = NoId,
                                                !.expiryTimer = NoId]
                                       ELSE history[k]]
                     /\ j \notin expiryLive'
                     /\ ~showDownloadButton'
                     /\ ~showExpiryWarning']_vars

\* --------------------------------------------------------------------- C19
\* C19: the step that adds a job's history entry puts it in front of the
\* ledger as it is at that moment: every entry present before the step is
\* still there after it, in the same order and with the same field values.
C19_EntryAddedToLatestLedger ==
    [][\A t \in Threads :
          (pc[t] \in {"dl", "dl_read", "dl_cleanup"} /\ pc'[t] = "done"
              /\ \E k \in 1..Len(history') : history'[k].id = t)
              => /\ Len(history') = Len(history) + 1
                 /\ \A k \in 1..Len(history) : history'[k + 1] = history[k]]_vars

\* --------------------------------------------------------------------- C20
\* C20: the expiry timer of an entry and the ledger update of a successful
\* manual retrieval of the same job commute.  Either step keeps every
\* entry in its place, leaves the job's entry not outstanding, with no
\* jobId and no expiry handle, and changes no other entry; so the step that
\* comes second changes nothing in the ledger, and after the retrieval's
\* update the entry's timer is no longer pending.
C20_SecondClearingIsNoOp ==
    [][\A x \in Threads :
          (ExpiryFires(x) \/ ManualCleanupAnswered(x))
              => /\ Len(history') = Len(history)
                 /\ \A k \in 1..Len(history) :
                        IF history[k].id = x
                        THEN /\ history'[k].id = x
                             /\ ~history'[k].downloadFailed
                             /\ history'[k].jobId = NoId
                             /\ history'[k].expiryTimer = NoId
                        ELSE history'[k] = history[k]
                 /\ x \notin expiryLive']_vars

\* the race: the manual retrieval of job j has saved the file and awaits its
\* cleanup request, and the expiry timer has fired meanwhile and cleared the
\* entry; the retrieval's ledger update comes second
C20_Witness ==
    \E j \in Threads :
        /\ mpc[j] = "dl_cleanup"
        /\ j \notin expiryLive
        /\ \E k \in 1..Len(history) :
               /\ history[k].id = j
               /\ ~history[k].downloadFailed
               /\ history[k].jobId = NoId

\* --------------------------------------------------------------------- C21
\* C21: when the automatic download is answered 410, the phase becomes error
\* with the message that asks for a re-upload, the invocation ends without
\* reading, saving or requesting a cleanup, and the ledger is not changed:
\* it holds no entry of that job.
C21_ExpiredArtifactIsError ==
    [][\A t \in Threads :
          DlExpired(t)
              => /\ processingStatus' = "error"
                 /\ errorMessage' = AutoExpiredMessage
                 /\ pc'[t] = "done"
                 /\ history' = history
                 /\ expiryLive' = expiryLive
                 /\ \A k \in 1..Len(history') : history'[k].id # t
                 /\ UNCHANGED <<showDownloadButton, showExpiryWarning>>]_vars

\* the download of job t was answered 410
C21_Witness ==
    \E t \in Threads :
        /\ pc[t] = "done"
        /\ currentJobId = t
        /\ processingStatus = "error"
        /\ errorMessage = AutoExpiredMessage
        /\ \A k \in 1..Len(history) : history[k].id # t

\* --------------------------------------------------------------------- C22
\* C22: an upload answered 503 is no error: the phase becomes
\* queue_full_waiting and the Queue Waiter's check is requested, with no job
\* id assigned; every later upload request of the submission carries the
\* same chunk size; a job id is assigned only by an accepted upload; and
\* when an upload is accepted, the submission has sent one upload request
\* more than it received 503 answers.
C22_RetryAfter503 ==
    [][\A t \in Threads :
          /\ Upload503(t)
                 => /\ processingStatus' = "queue_full_waiting"
                    /\ pc'[t] = "wait_check"
                    /\ UNCHANGED <<currentJobId, errorMessage>>
          /\ (uploadLog'[t].uploads > uploadLog[t].uploads
                /\ uploadLog[t].uploads > 0)
                 => uploadLog'[t].chunk = uploadLog[t].chunk
          /\ (currentJobId' = t /\ currentJobId # t)
                 => /\ pc[t] = "upload"
                    /\ pc'[t] = "poll"
                    /\ uploadLog'[t].uploads = uploadLog'[t].busy + 1]_vars

\* the second upload of submission t, sent after a 503 answer and a granting
\* re-check, was accepted
C22_Witness ==
    \E t \in Threads :
        /\ pc[t] = "poll"
        /\ currentJobId = t
        /\ uploadLog[t].busy = 1
        /\ uploadLog[t].uploads = 2
        /\ processingStatus = "uploading"

\* --------------------------------------------------------------------- C23
\* C23: a re-check answer of a waiting episode that says allowed=false,
\* whatever its queue_available, ends the episode: the phase becomes error
\* with the server's message and the waiter neither sets a re-check timer
\* nor requests another check.
C23_InadmissibleEndsWaiting ==
    [][\A t \in Threads, a \in CheckAnswers :
          (WaitCheckAnswered(t, a) /\ ~a.allowed)
              => /\ processingStatus' = "error"
                 /\ errorMessage' = a.message
                 /\ pc'[t] = "done"]_vars

C26_ErrorsEndInErrorPhase ==
    [][(\/ \E t \in Threads : CheckFailed0(t) \/ WaitCheckFailed(t)
        \/ \E t \in Threads, a \in CheckAnswers :
               /\ CheckAnswered0(t, a) \/ WaitCheckAnswered(t, a)
               /\ \/ ~a.allowed /\ a.queue_available
                  \/ /\ CheckAnswered0(t, a)
                     /\ ~a.queue_available
                     /\ a.queue_count >= QueueCeiling
        \/ \E t \in Threads, d \in UploadErrorDetails :
               UploadFailed(t, OrDefault(d, UploadFailedMessage))
        \/ \E t \in Threads, m \in TransportErrors : UploadFailed(t, m)
        \/ \E t \in Threads : PollFailed(t) \/ DlExpired(t)
        \/ \E t \in Threads, a \in StatusAnswers :
               PollAnswered(t, a) /\ a.status = "error"
        \/ HandleAbort /\ currentJobId = NoId
        \/ AbortCleanupDone)
          => processingStatus' = "error" /\ errorMessage' # ""]_vars

\* --------------------------------------------------------------------- C27
\* C27: a failed upload (transport error or a refusal other than 503) and a
\* failed poll (transport error, non-OK answer, or an answer with status
\* error) set the phase to error, with the server's message when it sent one
\* and the generic message otherwise, and end the submission: it sends no
\* further upload or status request.
C27_UploadAndPollFailuresAreFinal ==
    [][\A t \in Threads :
          /\ \A d \in UploadErrorDetails :
                 UploadFailed(t, OrDefault(d, UploadFailedMessage))
                     => /\ processingStatus' = "error"
                        /\ errorMessage' = (IF d # "" THEN d ELSE "Upload failed")
                        /\ pc'[t] = "done"
          /\ \A m \in TransportErrors :
                 UploadFailed(t, m)
                     => /\ processingStatus' = "error"
                        /\ errorMessage' = m
                        /\ pc'[t] = "done"
          /\ PollFailed(t)
                 => /\ processingStatus' = "error"
                    /\ errorMessage' = "Failed to check processing status"
                    /\ pc'[t] = "done"
          /\ \A a \in StatusAnswers :
                 (PollAnswered(t, a) /\ a.status = "error")
                     => /\ processingStatus' = "error"
                        /\ errorMessage' =
                               (IF a.error # "" THEN a.error
                                ELSE "An error occurred during processing")
                        /\ pc'[t] = "done"
          /\ pc[t] = "done" => /\ pc'[t] = "done"
                               /\ uploadLog'[t] = uploadLog[t]]_vars

\* the server reported a processing error with its own message
C27_Witness ==
    \E t \in Threads :
        /\ pc[t] = "done"
        /\ currentJobId = t
        /\ processingStatus = "error"
        /\ errorMessage = "Corrupted PDF file"

\* --------------------------------------------------------------------- C28
\* C28: backendAwake is false at the start, becomes true only in the step
\* that handles an OK answer to a health or ping request, and never becomes
\* false again; the submit button is enabled only while it is true; when the
\* health and the ping request have both failed, the retry timer is set;
\* and, the backend answering OK at some time, the button's condition
\* (backendAwake and not wakingBackend) eventually holds for good.
C28_WakeUp ==
    /\ ~backendAwake
    /\ [][/\ (backendAwake' /\ ~backendAwake)
                 => (HealthResponse(TRUE) \/ PingResponse(TRUE))
          /\ backendAwake => backendAwake'
          /\ PingResponse(FALSE) => wakePc' = "retry_timer"
          /\ HandleUploadClick => backendAwake /\ ~wakingBackend]_vars
    /\ [](SubmitEnabled => backendAwake)
    /\ <>[](backendAwake /\ ~wakingBackend)

\* the backend answered a request made by the retry timer: the message shown
\* while waking is gone and the button is enabled
C28_Witness ==
    /\ backendAwake
    /\ ~wakingBackend
    /\ wakePc = "done"
    /\ SubmitEnabled
    /\ homeErrorMessage = ""

\* --------------------------------------------------------------------- C29
\* C29: a pending re-check timer of the Queue Waiter is cancelled only by
\* the user's abort, by the acknowledgment or by the start of an upload: no
\* other step, such as a change of the ledger, takes a submission that waits
\* for its re-check timer to the place where it never continues.
C29_RecheckTimerSurvives ==
    [][\A t \in Threads :
          (pc[t] = "wait_timer" /\ pc'[t] = "cancelled")
              => \/ HandleAbort
                 \/ HandleOk
                 \/ \E u \in Threads : StartProcessing(u)]_vars

\* --------------------------------------------------------------------- C30
\* C30: every history entry that is outstanding has its expiry timer
\* pending, whatever happened to the ledger since the entry was added.
C30_OutstandingHasLiveTimer ==
    \A k \in 1..Len(history) :
        history[k].downloadFailed
            => /\ history[k].expiryTimer # NoId
               /\ history[k].expiryTimer \in expiryLive

\* C31: in every ledger state each history entry is outstanding
\* (downloadFailed) exactly when it carries a jobId, and exactly when it
\* carries an expiry-timer handle.
C31_EntryFieldsAgree ==
    \A k \in 1..Len(history) :
        /\ history[k].downloadFailed <=> (history[k].jobId # NoId)
        /\ history[k].downloadFailed <=> (history[k].expiryTimer # NoId)

\* the ledger holds an outstanding entry of one job above an entry of an
\* earlier job that is not outstanding
C31_Witness ==
    /\ Len(history) >= 2
    /\ history[1].downloadFailed
    /\ history[1].jobId # NoId
    /\ history[1].expiryTimer # NoId
    /\ ~history[2].downloadFailed
    /\ history[2].jobId = NoId
    /\ uploadLog[history[2].id].uploads > 0
    /\ pc[history[2].id] = "done"

\* C32: the queue snapshot is present only while the phase is queued: in
\* every other phase queueInfo is null, also after a queued job was aborted
\* or failed with a status error.
C32_SnapshotOnlyWhileQueued ==
    processingStatus # "queued" => queueInfo = <<>>

\* C33: progress is reset on entry to each measurable phase: in the step in
\* which the phase becomes uploading, and in the step in which it becomes
\* downloading (automatic or manual retrieval), progress becomes 0; and
\* progress stays within 0..100.
C33_ProgressResetOnEntry ==
    [][/\ (processingStatus # "uploading" /\ processingStatus' = "uploading")
              => progress' = 0
       /\ (processingStatus # "downloading" /\ processingStatus' = "downloading")
              => progress' = 0
       /\ (progress' >= 0 /\ progress' <= 100)]_vars

\* C34: the job identifier is absent in every state before an upload of the
\* current submission has succeeded (the phase is idle, or the submission is
\* checking, waiting for the queue, queued before its upload, or its upload
\* request is unanswered, also after a 503), and it is set only by a
\* successful upload response, at most once per job run (only from absent).
C34_JobIdOnlyAfterUpload ==
    /\ [](\/ processingStatus \in {"idle", "checking_queue"}
          \/ /\ selectedFile # NoId
             /\ pc[selectedFile] \in {"wait_check", "wait_timer", "delay",
                                      "upload"}
          => currentJobId = NoId)
    /\ [][currentJobId' # currentJobId
            => \/ (currentJobId' = NoId /\ HandleOk)
               \/ /\ currentJobId = NoId
                  /\ \E t \in Threads : UploadAccepted(t) /\ currentJobId' = t]_vars

\* C35: when a manual retrieval of job j is answered 410 (expired), the
\* manual-download affordance of j is removed everywhere: the button and the
\* warning of the active view are hidden, and no history entry of j is left
\* outstanding.
C35_ManualExpiredRemovesAffordance ==
    [][\A j \in Threads :
          ManualExpired(j)
              => /\ ~showDownloadButton'
                 /\ ~showExpiryWarning'
                 /\ \A k \in 1..Len(history') :
                        history'[k].id = j => ~history'[k].downloadFailed]_vars

\* the text is a number that is positive and not an integer (2.5, .5)
C36_PositiveNonInteger(text) ==
    LET n == ToNumber(text)
    IN  /\ text # <<>>
        /\ ~n.nan
        /\ ~n.neg
        /\ n.num % (10 ^ n.scale) # 0

\* C36: a submission whose chunk-size text is a positive number that is not
\* an integer is rejected by the form: every step shows the validation
\* message, leaves the file picker closed and starts no request, so that no
\* upload request carries such a chunk size.
C36_NonIntegerChunkRejected ==
    [][C36_PositiveNonInteger(chunkSize)
           => /\ homeErrorMessage' = ValidationMessage
              /\ ~pickerOpen'
              /\ pc' = pc]_vars

\* C37: when a manual retrieval ends (saved and cleaned up, answered 410, or
\* failed in any other way) the phase is finished or error again, so that
\* OK is enabled: the phase is not left at downloading.
C37_ManualRetrievalEndsTerminal ==
    [][\A j \in Threads :
          (ManualCleanupAnswered(j) \/ ManualExpired(j) \/ ManualFailed(j))
              => /\ processingStatus' \in {"finished", "error"}
                 /\ OkEnabled']_vars

\* C38: a cleanup request for a job is sent only by the step that has
\* received the whole artifact of that job and saved it, or by a user abort
\* with a job identifier; and every save, automatic or manual, sends the
\* cleanup request for its job in the same step, before the ledger is
\* updated for that job.
C38_CleanupAfterSaveOrAbort ==
    [][/\ \A t \in Threads :
            /\ (pc[t] # "dl_cleanup" /\ pc'[t] = "dl_cleanup")
                   => /\ pc[t] = "dl_read"
                      /\ dl[t].received = dl[t].length
            /\ (mpc[t] # "dl_cleanup" /\ mpc'[t] = "dl_cleanup")
                   => /\ mpc[t] = "dl_read"
                      /\ mdl[t].received = mdl[t].length
            /\ DlSaved(t) => (pc'[t] = "dl_cleanup" /\ history' = history)
            /\ ManualSaved(t) => (mpc'[t] = "dl_cleanup" /\ history' = history)
            /\ (/\ pc[t] # "done"
                /\ pc'[t] = "done"
                /\ Len(history') > 0
                /\ history'[1].id = t
                /\ ~history'[1].downloadFailed) => pc[t] = "dl_cleanup"
            /\ (/\ mpc[t] # "none"
                /\ mpc'[t] = "none"
                /\ history' # history) => mpc[t] = "dl_cleanup"
       /\ abortsInFlight' > abortsInFlight
              => (HandleAbort /\ currentJobId # NoId)]_vars

\* the artifact of a job was received and saved, its cleanup request is
\* unanswered and the ledger has no entry of the job yet
C38_Witness ==
    \E t \in Threads :
        /\ pc[t] = "dl_cleanup"
        /\ currentJobId = t
        /\ processingStatus = "downloading"
        /\ \A k \in 1..Len(history) : history[k].id # t

\* C39: whenever the home view (the submission form and the history list) is
\* shown, the phase is idle; the phase is other than idle only while the
\* processing view is shown, also after a manual retrieval started from a
\* history entry.
C39_HomeViewIsIdle ==
    currentStage = "home" => processingStatus = "idle"

=============================================================================
